---- MODULE Spec2Model ----
(***************************************************************************)
(* Model of the graph-style agent runtime of graph_advanced_runtime.py:    *)
(* init_state, run_llm_with_tools, planner_node, worker_node, critic_node, *)
(* error_node, router and run_graph.                                       *)
(*                                                                         *)
(* Texts are finite sequences of string tokens; the empty text is <<>>.    *)
(* The hosted model is the environment: every invoke either raises or      *)
(* returns a completion drawn from a small set.  Tool-call ids are issued  *)
(* by the provider and are fresh (nextId).                                 *)
(***************************************************************************)
EXTENDS Integers, Sequences, FiniteSets, TLC

VARIABLES
    state,        \* the AgentState dictionary threaded through the nodes
    pc,           \* position of run_graph / run_llm_with_tools
    node,         \* run_graph: the node the router returned last
    step,         \* run_graph: the step counter
    round_idx,    \* run_llm_with_tools: index of the current round
    resp,         \* the last completion received (run_llm_with_tools: resp)
    call_idx,     \* run_llm_with_tools: position in resp.tool_calls
    loop_history, \* run_llm_with_tools: its local tool_history
    nextId,       \* environment: next fresh tool-call id
    trace,        \* history: node functions invoked so far, with outcome
    invokes,      \* history: invokes made by the current tool loop call
    loopExit,     \* history: how the last tool loop call ended
    raisedIds,    \* history: ids of tool calls whose handler raised
    env,          \* environment: the bounds on what the model does in this task
    file,         \* memory stores: the content of the memory file
    stores,       \* memory stores: the store objects (SimpleMemory, GraphMemory)
    agent         \* the other agents: the running call of one of them

\* the variables of the graph runtime
graphvars == <<state, pc, node, step, round_idx, resp, call_idx, loop_history,
               nextId, trace, invokes, loopExit, raisedIds, env>>

\* the variables of the memory stores
memvars == <<file, stores>>

vars == <<graphvars, memvars, agent>>

----------------------------------------------------------------------------
(* Program constants *)

max_loops == 2
max_rounds == 5
max_steps == 10

(* Bounds of the model *)

\* tool-call requests in one completion
MaxCalls == 2
\* tool-call requests the model issues in one task, when it answers with text
MaxToolCalls == 5
\* empty texts the model returns in one task, when it uses tools freely
FewEmpties == 1
\* tool-call requests the model issues in one task, when it returns empty
\* texts freely
FewToolCalls == 1

\* What the model does in one task is bounded in one of two ways: it issues
\* up to MaxToolCalls tool-call requests and few empty texts, or any number
\* of empty texts (the step ceiling ends the task) and few tool-call requests.
Profiles ==
    {[toolCalls |-> MaxToolCalls, empties |-> FewEmpties],
     [toolCalls |-> FewToolCalls, empties |-> max_steps]}

----------------------------------------------------------------------------
(* Texts *)

NL == "NL"
SP == "SP"

IsSpace(c) == c \in {NL, SP}

RECURSIVE LStrip(_)
LStrip(t) == IF t # <<>> /\ IsSpace(Head(t)) THEN LStrip(Tail(t)) ELSE t

RECURSIVE RStrip(_)
RStrip(t) ==
    IF t # <<>> /\ IsSpace(t[Len(t)]) THEN RStrip(SubSeq(t, 1, Len(t) - 1)) ELSE t

\* str.strip()
Strip(t) == RStrip(LStrip(t))

\* str.splitlines(): lines end at NL; a final NL opens no further line
RECURSIVE SplitLinesFrom(_, _)
SplitLinesFrom(t, cur) ==
    IF t = <<>> THEN (IF cur = <<>> THEN <<>> ELSE <<cur>>)
    ELSE IF Head(t) = NL THEN <<cur>> \o SplitLinesFrom(Tail(t), <<>>)
    ELSE SplitLinesFrom(Tail(t), Append(cur, Head(t)))

SplitLines(t) == SplitLinesFrom(t, <<>>)

\* "\n".join(lines)
RECURSIVE JoinLines(_)
JoinLines(ls) ==
    IF ls = <<>> THEN <<>>
    ELSE IF Len(ls) = 1 THEN ls[1]
    ELSE ls[1] \o <<NL>> \o JoinLines(Tail(ls))

\* "1" in flag_line
Contains1(line) == \E i \in 1..Len(line) : line[i] = "1"

----------------------------------------------------------------------------
(* Messages *)

SystemMessage(c) == [type |-> "system", content |-> c, tool_calls |-> <<>>, tool_call_id |-> 0]
HumanMessage(c) == [type |-> "human", content |-> c, tool_calls |-> <<>>, tool_call_id |-> 0]
AIMessage(c, calls) == [type |-> "ai", content |-> c, tool_calls |-> calls, tool_call_id |-> 0]
ToolMessage(c, id) == [type |-> "tool", content |-> c, tool_calls |-> <<>>, tool_call_id |-> id]

(* The environment: what an invoke can produce *)

Failure == [ok |-> FALSE, content |-> <<>>, tool_calls |-> <<>>]
Completion(c, calls) == [ok |-> TRUE, content |-> c, tool_calls |-> calls]
NoResp == [ok |-> FALSE, content |-> <<>>, tool_calls |-> <<>>]

UserInput == <<"task">>
PlanTexts == {<<>>, <<"step_goal", "step_activity">>}
AnswerTexts == {<<>>, <<"answer">>}
CriticTexts == {<<"0">>, <<"1", NL, "r">>}

\* the names the registry holds
tool_map == {"calculator", "text_stats", "generate_class_activities",
             "course_intro_polish", "generate_ppt_structure"}
\* the names the model may ask for
RequestNames == {"calculator", "nonexistent"}

\* the tool-call lists of n requests with ids first, first+1, ...
CallLists(n, first) ==
    { [i \in 1..n |-> [name |-> f[i], args |-> "args", id |-> first + i - 1]] :
        f \in [1..n -> RequestNames] }

----------------------------------------------------------------------------
(* State *)

init_state(user_input) ==
    [user_input |-> user_input,
     planner_plan |-> <<>>,
     messages |-> <<>>,
     tool_history |-> <<>>,
     final_answer |-> <<>>,
     finished |-> FALSE,
     error_msg |-> "",
     need_retry |-> FALSE,
     critic_done |-> FALSE,
     critic_reason |-> <<>>,
     loop_count |-> 0,
     max_loops |-> max_loops]

----------------------------------------------------------------------------
(* Router *)

\* a mutant: the plan is looked at before the error
router_plan_first(s) ==
    IF s.planner_plan = <<>> THEN "planner"
    ELSE IF s.error_msg # "" THEN "error"
    ELSE IF s.final_answer # <<>> /\ ~s.critic_done THEN "critic"
    ELSE IF s.need_retry /\ ~s.finished THEN "worker"
    ELSE IF s.final_answer = <<>> THEN "worker"
    ELSE "end"

router(s) ==
    IF s.error_msg # "" THEN "error"
    ELSE IF s.planner_plan = <<>> THEN "planner"
    ELSE IF s.final_answer # <<>> /\ ~s.critic_done THEN "critic"
    ELSE IF s.need_retry /\ ~s.finished THEN "worker"
    ELSE IF s.final_answer = <<>> THEN "worker"
    ELSE IF s.finished THEN "end"
    ELSE "end"

----------------------------------------------------------------------------
(* Node functions, as functions of the state and of what the model did *)

\* a mutant: the plan is written before the call is known to have succeeded
planner_node_partial(s, r) ==
    IF ~r.ok
    THEN [s EXCEPT !.error_msg = "planner_invoke_failed", !.planner_plan = <<"step_goal">>]
    ELSE [s EXCEPT !.planner_plan = r.content]

planner_node(s, r) ==
    IF ~r.ok
    THEN [s EXCEPT !.error_msg = "planner_invoke_failed"]
    ELSE [s EXCEPT !.planner_plan = r.content]

\* worker_node up to the call of run_llm_with_tools
\* a mutant: only the first entry is counted
worker_enter_counts_once(s) ==
    LET m0 == IF s.messages = <<>>
              THEN <<SystemMessage(<<"base_system">> \o s.planner_plan)>>
              ELSE s.messages
        m1 == IF s.need_retry /\ s.critic_reason # <<>>
              THEN Append(m0, SystemMessage(<<"critic_hint">> \o s.critic_reason))
              ELSE m0
        m2 == Append(m1, HumanMessage(s.user_input))
    IN [s EXCEPT !.messages = m2, !.loop_count = IF @ = 0 THEN 1 ELSE @]

worker_enter(s) ==
    LET m0 == IF s.messages = <<>>
              THEN <<SystemMessage(<<"base_system">> \o s.planner_plan)>>
              ELSE s.messages
        m1 == IF s.need_retry /\ s.critic_reason # <<>>
              THEN Append(m0, SystemMessage(<<"critic_hint">> \o s.critic_reason))
              ELSE m0
        m2 == Append(m1, HumanMessage(s.user_input))
    IN [s EXCEPT !.messages = m2, !.loop_count = @ + 1]

\* a mutant: a failed attempt takes its messages back
worker_except_rollback(s, e) ==
    [s EXCEPT !.error_msg = e, !.tool_history = <<>>, !.messages = <<>>]

\* a mutant: a failed attempt is reported as the answer, not as an error
worker_except_as_answer(s, e) ==
    [s EXCEPT !.final_answer = <<e>>, !.tool_history = <<>>]

\* worker_node: the except branch around run_llm_with_tools
worker_except(s, e) ==
    [s EXCEPT !.error_msg = e, !.tool_history = <<>>]

\* a mutant: a new answer keeps the review of the previous one
worker_success_keeps_review(s, final_response, th) ==
    [s EXCEPT !.tool_history = th,
              !.final_answer = final_response.content,
              !.need_retry = FALSE]

\* worker_node after run_llm_with_tools returned
worker_success(s, final_response, th) ==
    [s EXCEPT !.tool_history = th,
              !.final_answer = final_response.content,
              !.need_retry = FALSE,
              !.critic_done = FALSE]

\* the first line of the stripped critic text, "0" when there is none
FlagLine(content) ==
    LET lines == SplitLines(Strip(content))
    IN IF lines # <<>> THEN lines[1] ELSE <<"0">>

\* a mutant: the retry limit is compared with > instead of >=
critic_node_late_limit(s, r) ==
    IF s.final_answer = <<>>
    THEN [s EXCEPT !.critic_done = TRUE, !.need_retry = FALSE]
    ELSE IF ~r.ok
    THEN [s EXCEPT !.critic_done = TRUE, !.need_retry = FALSE]
    ELSE
      LET critic_text == Strip(r.content)
          need == Contains1(FlagLine(r.content))
          s1 == [s EXCEPT !.need_retry = need,
                          !.critic_reason = critic_text,
                          !.critic_done = TRUE]
      IN IF ~need
         THEN [s1 EXCEPT !.finished = TRUE]
         ELSE IF s1.loop_count > s1.max_loops
              THEN [s1 EXCEPT !.need_retry = FALSE, !.finished = TRUE]
              ELSE s1

critic_node(s, r) ==
    IF s.final_answer = <<>>
    THEN [s EXCEPT !.critic_done = TRUE, !.need_retry = FALSE]
    ELSE IF ~r.ok
    THEN [s EXCEPT !.critic_done = TRUE, !.need_retry = FALSE]
    ELSE
      LET critic_text == Strip(r.content)
          lines == SplitLines(critic_text)
          flag_line == IF lines # <<>> THEN lines[1] ELSE <<"0">>
          need == Contains1(flag_line)
          s1 == [s EXCEPT !.need_retry = need,
                          !.critic_reason = critic_text,
                          !.critic_done = TRUE]
      IN IF ~need
         THEN [s1 EXCEPT !.finished = TRUE]
         ELSE IF s1.loop_count >= s1.max_loops
              THEN [s1 EXCEPT !.need_retry = FALSE, !.finished = TRUE]
              ELSE s1

ErrorAnswer(e) == <<"error_prefix", e, "error_suffix">>

\* a mutant: the error node forgets to finish the task
error_node_unfinished(s) ==
    [s EXCEPT !.final_answer = ErrorAnswer(s.error_msg)]

error_node(s) ==
    [s EXCEPT !.final_answer = ErrorAnswer(s.error_msg), !.finished = TRUE]

TooManySteps == <<"too_many_steps">>

\* run_graph after its while loop
\* a mutant: the step ceiling finishes the task without an answer
after_loop_no_answer(s, n) ==
    IF n >= max_steps THEN [s EXCEPT !.finished = TRUE] ELSE s

after_loop(s, n) ==
    IF n >= max_steps
    THEN [s EXCEPT !.final_answer = IF @ = <<>> THEN TooManySteps ELSE @,
                   !.finished = TRUE]
    ELSE s

\* a mutant: the step ceiling is off by one
loop_continues_off_by_one(nd, n) == nd # "end" /\ n <= max_steps

\* the while condition of run_graph
loop_continues(nd, n) == nd # "end" /\ n < max_steps

----------------------------------------------------------------------------
(* run_llm_with_tools *)

\* a mutant: the loop runs one round too many
rounds_left_off_by_one(r) == r <= max_rounds

\* for round_idx in range(max_rounds)
rounds_left(r) == r < max_rounds

\* a mutant: a missing tool is not told apart
ToolOutput_no_lookup(call) == <<"output_of", call.name, call.args>>

ToolOutput(call) ==
    IF call.name \notin tool_map
    THEN <<"tool_not_found", call.name>>
    ELSE <<"output_of", call.name, call.args>>

\* a mutant: a request for a missing tool gets no ToolMessage
append_tool_message_known_only(msgs, call) ==
    IF call.name \notin tool_map
    THEN msgs
    ELSE Append(msgs, ToolMessage(ToolOutput(call), call.id))

\* the messages after the call's result was appended
append_tool_message(msgs, call) ==
    Append(msgs, ToolMessage(ToolOutput(call), call.id))

\* a mutant: the newest entry is put first
append_tool_history_newest_first(th, call) ==
    <<(<<call.name, call.args, ToolOutput(call)>>)>> \o th

append_tool_history(th, call) ==
    Append(th, <<call.name, call.args, ToolOutput(call)>>)

----------------------------------------------------------------------------
(* Memory stores: values *)

\* a JSON value, or what stands in the place of one: tag is "list" (elems
\* are its records), "object", "scalar", "invalid" (unreadable, or no JSON)
\* or "missing" (no file)
Value(tag, elems) == [tag |-> tag, elems |-> elems]
ListOf(elems) == Value("list", elems)

Stores == {1, 2}

\* a store object that was not constructed
NoStore ==
    [kind |-> "none", max_items |-> 0, items |-> ListOf(<<>>), pc |-> "new",
     loaded |-> "none", all |-> <<>>, adds |-> 0, saved |-> FALSE, summary |-> "none"]

\* none of the other agents is running
NoAgent ==
    [kind |-> "none", pc |-> "none", messages |-> <<>>, resp |-> NoResp,
     call_idx |-> 0, invokes |-> 0, turns |-> 0, result |-> <<>>]

\* no memory store is in use
NoMemory ==
    /\ file = Value("missing", <<>>)
    /\ stores = [p \in Stores |-> NoStore]

----------------------------------------------------------------------------
(* Actions *)

Event(n, o) == [node |-> n, out |-> o]

Empties == Cardinality({i \in 1..Len(trace) : trace[i].out = "empty"})

LoopIdle == /\ round_idx' = 0
            /\ resp' = NoResp
            /\ call_idx' = 0
            /\ loop_history' = <<>>

\* a node function returned to run_graph: step += 1; node = router(state)
Return(s) ==
    /\ state' = s
    /\ step' = step + 1
    /\ node' = router(s)
    /\ pc' = "loop"

PlannerNode ==
    /\ pc = "loop" /\ loop_continues(node, step) /\ node = "planner"
    /\ \E r \in {Failure} \cup {Completion(p, <<>>) : p \in PlanTexts} :
         /\ (r.ok /\ r.content = <<>>) => Empties < env.empties
         /\ Return(planner_node(state, r))
         /\ resp' = r
         /\ trace' = Append(trace, Event("planner",
                        IF ~r.ok THEN "fail" ELSE IF r.content = <<>> THEN "empty" ELSE "ok"))
    /\ UNCHANGED <<round_idx, call_idx, loop_history, nextId, invokes, loopExit, raisedIds, env, memvars, agent>>

WorkerEnter ==
    /\ pc = "loop" /\ loop_continues(node, step) /\ node = "worker"
    /\ state' = worker_enter(state)
    /\ pc' = "invoke"
    /\ LoopIdle
    /\ invokes' = 0
    /\ loopExit' = "running"
    /\ trace' = Append(trace, Event("worker", "running"))
    /\ UNCHANGED <<node, step, nextId, raisedIds, env, memvars, agent>>

SetOutcome(o) == trace' = [trace EXCEPT ![Len(trace)] = Event("worker", o)]

\* the exception leaves run_llm_with_tools and is caught by worker_node
WorkerFails(e, how) ==
    /\ Return(worker_except(state, e))
    /\ loopExit' = how
    /\ SetOutcome("fail")

LoopInvokeFails ==
    /\ pc = "invoke" /\ rounds_left(round_idx)
    /\ WorkerFails("worker_invoke_failed", "remote")
    /\ invokes' = invokes + 1
    /\ resp' = Failure
    /\ UNCHANGED <<round_idx, call_idx, loop_history, nextId, raisedIds, env, memvars, agent>>

LoopInvokeFinal ==
    /\ pc = "invoke" /\ rounds_left(round_idx)
    /\ \E a \in AnswerTexts :
         LET r == Completion(a, <<>>)
             s1 == [state EXCEPT !.messages = Append(@, AIMessage(r.content, r.tool_calls))]
         IN /\ a = <<>> => Empties < env.empties
            /\ Return(worker_success(s1, r, loop_history))
            /\ resp' = r
            /\ SetOutcome(IF a = <<>> THEN "empty" ELSE "ok")
    /\ invokes' = invokes + 1
    /\ loopExit' = "return"
    /\ UNCHANGED <<round_idx, call_idx, loop_history, nextId, raisedIds, env, memvars, agent>>

LoopInvokeToolCalls ==
    /\ pc = "invoke" /\ rounds_left(round_idx)
    /\ \E n \in 1..MaxCalls :
         /\ nextId + n - 1 <= env.toolCalls
         /\ \E calls \in CallLists(n, nextId) :
              LET r == Completion(<<>>, calls)
              IN /\ state' = [state EXCEPT !.messages = Append(@, AIMessage(r.content, r.tool_calls))]
                 /\ resp' = r
         /\ nextId' = nextId + n
    /\ invokes' = invokes + 1
    /\ call_idx' = 1
    /\ pc' = "tools"
    /\ UNCHANGED <<node, step, round_idx, loop_history, trace, loopExit, raisedIds, env, memvars, agent>>

\* the tool is missing, or its handler returns
LoopToolRuns ==
    /\ pc = "tools"
    /\ LET call == resp.tool_calls[call_idx]
       IN /\ state' = [state EXCEPT !.messages = append_tool_message(@, call)]
          /\ loop_history' = append_tool_history(loop_history, call)
    /\ IF call_idx < Len(resp.tool_calls)
       THEN call_idx' = call_idx + 1 /\ UNCHANGED <<round_idx, pc>>
       ELSE call_idx' = 0 /\ round_idx' = round_idx + 1 /\ pc' = "invoke"
    /\ UNCHANGED <<node, step, resp, nextId, trace, invokes, loopExit, raisedIds, env, memvars, agent>>

\* tool_map[tool_name].invoke(tool_args) raises
LoopToolRaises ==
    /\ pc = "tools"
    /\ resp.tool_calls[call_idx].name \in tool_map
    /\ WorkerFails("worker_invoke_failed", "tool")
    /\ raisedIds' = raisedIds \cup {resp.tool_calls[call_idx].id}
    /\ UNCHANGED <<env, memvars, agent>>
    /\ UNCHANGED <<round_idx, resp, call_idx, loop_history, nextId, invokes>>

LoopRoundsExceeded ==
    /\ pc = "invoke" /\ ~rounds_left(round_idx)
    /\ WorkerFails("worker_invoke_failed", "exceeded")
    /\ UNCHANGED <<round_idx, resp, call_idx, loop_history, nextId, invokes, raisedIds, env, memvars, agent>>

CriticNode ==
    /\ pc = "loop" /\ loop_continues(node, step) /\ node = "critic"
    /\ \E r \in {Failure} \cup {Completion(c, <<>>) : c \in CriticTexts} :
         LET s1 == critic_node(state, r)
         IN /\ Return(s1)
            /\ resp' = r
            /\ trace' = Append(trace, Event("critic",
                          IF state.final_answer = <<>> THEN "skip"
                          ELSE IF ~r.ok THEN "fail"
                          ELSE IF s1.need_retry THEN "retry"
                          ELSE IF s1.critic_reason # <<>> /\ Contains1(SplitLines(s1.critic_reason)[1])
                               THEN "forced" ELSE "accept"))
    /\ UNCHANGED <<round_idx, call_idx, loop_history, nextId, invokes, loopExit, raisedIds, env, memvars, agent>>

\* the error node, then break
ErrorNode ==
    /\ pc = "loop" /\ loop_continues(node, step) /\ node = "error"
    /\ state' = error_node(state)
    /\ pc' = "after"
    /\ trace' = Append(trace, Event("error", "done"))
    /\ UNCHANGED <<node, step, round_idx, resp, call_idx, loop_history, nextId,
                   invokes, loopExit, raisedIds, env, memvars, agent>>

\* the while condition is false
LoopExit ==
    /\ pc = "loop" /\ ~loop_continues(node, step)
    /\ pc' = "after"
    /\ UNCHANGED <<state, node, step, round_idx, resp, call_idx, loop_history, nextId,
                   trace, invokes, loopExit, raisedIds, env, memvars, agent>>

AfterLoop ==
    /\ pc = "after"
    /\ state' = after_loop(state, step)
    /\ pc' = "done"
    /\ UNCHANGED <<node, step, round_idx, resp, call_idx, loop_history, nextId,
                   trace, invokes, loopExit, raisedIds, env, memvars, agent>>

Init ==
    /\ state = init_state(UserInput)
    /\ pc = "loop"
    /\ node = router(init_state(UserInput))
    /\ step = 0
    /\ round_idx = 0
    /\ resp = NoResp
    /\ call_idx = 0
    /\ loop_history = <<>>
    /\ nextId = 1
    /\ trace = <<>>
    /\ invokes = 0
    /\ loopExit = "none"
    /\ raisedIds = {}
    /\ env \in Profiles
    /\ NoMemory
    /\ agent = NoAgent

Next ==
    \/ PlannerNode
    \/ WorkerEnter
    \/ LoopInvokeFails
    \/ LoopInvokeFinal
    \/ LoopInvokeToolCalls
    \/ LoopToolRuns
    \/ LoopToolRaises
    \/ LoopRoundsExceeded
    \/ CriticNode
    \/ ErrorNode
    \/ LoopExit
    \/ AfterLoop

Spec == Init /\ [][Next]_vars

----------------------------------------------------------------------------
(* The router applied to an arbitrary AgentState *)

RouterStates ==
    { [init_state(UserInput) EXCEPT
          !.error_msg = e, !.planner_plan = p, !.final_answer = a,
          !.critic_done = c, !.need_retry = n, !.finished = f] :
        e \in {"", "planner_invoke_failed", "worker_invoke_failed"},
        p \in PlanTexts, a \in AnswerTexts,
        c \in BOOLEAN, n \in BOOLEAN, f \in BOOLEAN }

InitRouter ==
    /\ state \in RouterStates
    /\ pc = "router_call"
    /\ node = "none"
    /\ step = 0
    /\ round_idx = 0
    /\ resp = NoResp
    /\ call_idx = 0
    /\ loop_history = <<>>
    /\ nextId = 1
    /\ trace = <<>>
    /\ invokes = 0
    /\ loopExit = "none"
    /\ raisedIds = {}
    /\ env = [toolCalls |-> 0, empties |-> 0]
    /\ NoMemory
    /\ agent = NoAgent

RouterCall ==
    /\ pc = "router_call"
    /\ node' = router(state)
    /\ pc' = "router_returned"
    /\ UNCHANGED <<state, step, round_idx, resp, call_idx, loop_history, nextId,
                   trace, invokes, loopExit, raisedIds, env, memvars, agent>>

NextRouter == RouterCall

SpecRouter == InitRouter /\ [][NextRouter]_vars

----------------------------------------------------------------------------
(* critic_node as a function of the state it is entered with and of what  *)
(* critic_llm.invoke gives: SpecCritic applies it once to every such pair. *)

MaxLoopCount == 3

\* what the critic model may answer: flags alone, flags with a reason,
\* first lines that merely contain the character 1, and nothing at all
CriticParseTexts ==
    { <<>>,
      <<"0">>,
      <<"1">>,
      <<"1", "0">>,
      <<"0", SP, "(", "1", SP, "issue", ")">>,
      <<"x", "1">>,
      <<"1", NL, "r">>,
      <<"0", NL, "1">>,
      <<SP, "1", NL>> }

CriticResponses == {Failure} \cup {Completion(c, <<>>) : c \in CriticParseTexts}

CriticStates ==
    { [init_state(UserInput) EXCEPT
          !.planner_plan = <<"step_goal", "step_activity">>,
          !.final_answer = a, !.loop_count = l,
          !.critic_done = c, !.need_retry = n, !.finished = f] :
        a \in AnswerTexts, l \in 0..MaxLoopCount,
        c \in BOOLEAN, n \in BOOLEAN, f \in BOOLEAN }

InitCritic ==
    /\ state \in CriticStates
    /\ pc = "critic_call"
    /\ node = "critic"
    /\ step = 0
    /\ round_idx = 0
    /\ resp = NoResp
    /\ call_idx = 0
    /\ loop_history = <<>>
    /\ nextId = 1
    /\ trace = <<>>
    /\ invokes = 0
    /\ loopExit = "none"
    /\ raisedIds = {}
    /\ env = [toolCalls |-> 0, empties |-> 0]
    /\ NoMemory
    /\ agent = NoAgent

CriticCall ==
    /\ pc = "critic_call"
    /\ \E r \in CriticResponses :
         /\ resp' = r
         /\ state' = critic_node(state, r)
    /\ pc' = "critic_returned"
    /\ UNCHANGED <<node, step, round_idx, call_idx, loop_history, nextId,
                   trace, invokes, loopExit, raisedIds, env, memvars, agent>>

NextCritic == CriticCall

SpecCritic == InitCritic /\ [][NextCritic]_vars

----------------------------------------------------------------------------
(* The memory stores: SimpleMemory (teaching_graph_agent_v3_memory.py),    *)
(* GraphMemory (general_graph_agent_v1.py) and the file-less GraphMemory   *)
(* of teaching_pipeline_cli.py. A JSON value is a tag with the records of  *)
(* a list; records are opaque numbers. Two store instances work on one     *)
(* file, and add_record is taken in its steps: append, truncate, save.     *)

MaxItems == 2
MaxAdds == 2
MaxOld == 3

Kinds == {"SimpleMemory", "GraphMemory", "PipelineMemory"}

FileKinds == {"SimpleMemory", "GraphMemory"}

OldRecord(i) == 100 + i

\* the record that store p appends in its k-th add_record
NewRecord(p, k) == 10 * p + k

\* what the memory file may hold when a store is constructed: nothing, text
\* that is not JSON (or cannot be read), a JSON object, a JSON number, or a
\* JSON list of records
FileContents ==
    { Value("missing", <<>>), Value("unreadable", <<>>),
      Value("object", <<>>), Value("number", <<>>) }
    \cup { ListOf([i \in 1..n |-> OldRecord(i)]) : n \in 0..MaxOld }

Raised == Value("raised", <<>>)

\* a mutant: the oldest n records are kept
FirstN(seq, n) == IF Len(seq) > n THEN SubSeq(seq, 1, n) ELSE seq

\* seq[-n:] for n >= 1
LastN(seq, n) ==
    IF Len(seq) > n THEN SubSeq(seq, Len(seq) - n + 1, Len(seq)) ELSE seq

\* SimpleMemory._load
simple_load(f) ==
    IF f.tag = "missing" THEN ListOf(<<>>)
    ELSE IF f.tag = "unreadable" THEN ListOf(<<>>)
    ELSE IF f.tag = "list" THEN f
    ELSE ListOf(<<>>)

\* GraphMemory._load: whatever json.load returns becomes self.items
graph_load(f) ==
    IF f.tag = "missing" THEN ListOf(<<>>)
    ELSE IF f.tag = "unreadable" THEN ListOf(<<>>)
    ELSE f

\* GraphMemory.from_json of teaching_pipeline_cli.py: 'for item in data'
\* raises for a number, and the keys of an object are skipped one by one
from_json(f) ==
    IF f.tag = "unreadable" THEN ListOf(<<>>)
    ELSE IF f.tag = "number" THEN Raised
    ELSE IF f.tag = "object" THEN ListOf(<<>>)
    ELSE f

load(kind, f) ==
    IF kind = "SimpleMemory" THEN simple_load(f)
    ELSE IF kind = "GraphMemory" THEN graph_load(f)
    ELSE IF f.tag = "missing" THEN ListOf(<<>>)
    ELSE from_json(f)

\* what _save hands to json.dump
written(st) ==
    IF st.kind = "GraphMemory"
    THEN ListOf(LastN(st.items.elems, st.max_items))
    ELSE st.items

\* build_summary: "empty" for no history, "text" for a summary, "raised"
\* when slicing self.items fails
build_summary(items) ==
    IF items.tag = "list"
    THEN IF items.elems = <<>> THEN "empty" ELSE "text"
    ELSE "raised"

InitMemory ==
    /\ state = init_state(UserInput)
    /\ pc = "memory"
    /\ node = "none"
    /\ step = 0
    /\ round_idx = 0
    /\ resp = NoResp
    /\ call_idx = 0
    /\ loop_history = <<>>
    /\ nextId = 1
    /\ trace = <<>>
    /\ invokes = 0
    /\ loopExit = "none"
    /\ raisedIds = {}
    /\ env = [toolCalls |-> 0, empties |-> 0]
    /\ file \in FileContents
    /\ stores = [p \in Stores |-> NoStore]
    /\ agent = NoAgent

\* __init__ (or from_json) of a store
Construct(p) ==
    /\ stores[p].pc = "new"
    /\ \E k \in Kinds, n \in 1..MaxItems :
         LET v == load(k, file)
         IN stores' = [stores EXCEPT ![p] =
              [kind |-> k, max_items |-> n,
               items |-> IF v = Raised THEN ListOf(<<>>) ELSE v,
               pc |-> IF v = Raised THEN "raised" ELSE "ready",
               loaded |-> file.tag,
               all |-> IF v.tag = "list" THEN v.elems ELSE <<>>,
               adds |-> 0, saved |-> FALSE, summary |-> "none"]]
    /\ UNCHANGED <<file, graphvars, agent>>

\* add_record: self.items.append(record)
AddAppend(p) ==
    /\ stores[p].pc = "ready"
    /\ stores[p].adds < MaxAdds
    /\ LET st == stores[p]
           record == NewRecord(p, st.adds + 1)
       IN IF st.items.tag = "list"
          THEN stores' = [stores EXCEPT ![p] =
                 [st EXCEPT !.items = ListOf(Append(st.items.elems, record)),
                            !.all = Append(st.all, record),
                            !.pc = "appended"]]
          ELSE stores' = [stores EXCEPT ![p] = [st EXCEPT !.pc = "raised"]]
    /\ UNCHANGED <<file, graphvars, agent>>

\* add_record: keep the last max_items
AddTruncate(p) ==
    /\ stores[p].pc = "appended"
    /\ LET st == stores[p]
       IN stores' = [stores EXCEPT ![p] =
            [st EXCEPT !.items = ListOf(LastN(st.items.elems, st.max_items)),
                       !.pc = "truncated"]]
    /\ UNCHANGED <<file, graphvars, agent>>

\* add_record: self._save(), whose exceptions are swallowed; the store of
\* teaching_pipeline_cli.py has no file
AddSave(p) ==
    /\ stores[p].pc = "truncated"
    /\ LET st == stores[p]
       IN IF st.kind \in FileKinds
          THEN \E outcome \in {"ok", "open_failed", "dump_failed"} :
                 /\ file' = IF outcome = "ok" THEN written(st)
                            ELSE IF outcome = "open_failed" THEN file
                            ELSE Value("unreadable", <<>>)
                 /\ stores' = [stores EXCEPT ![p] =
                      [st EXCEPT !.pc = "ready", !.adds = st.adds + 1,
                                 !.saved = (outcome = "ok")]]
          ELSE /\ file' = file
               /\ stores' = [stores EXCEPT ![p] =
                    [st EXCEPT !.pc = "ready", !.adds = st.adds + 1,
                               !.saved = FALSE]]
    /\ UNCHANGED <<graphvars, agent>>

BuildSummary(p) ==
    /\ stores[p].pc = "ready"
    /\ stores[p].summary = "none"
    /\ LET st == stores[p]
           r == build_summary(st.items)
       IN stores' = [stores EXCEPT ![p] =
            [st EXCEPT !.summary = r,
                       !.pc = IF r = "raised" THEN "raised" ELSE "ready"]]
    /\ UNCHANGED <<file, graphvars, agent>>

NextMemory ==
    \E p \in Stores :
      \/ Construct(p)
      \/ AddAppend(p)
      \/ AddTruncate(p)
      \/ AddSave(p)
      \/ BuildSummary(p)

SpecMemory == InitMemory /\ [][NextMemory]_vars

----------------------------------------------------------------------------
(* Properties *)

LastEvent == IF trace = <<>> THEN Event("none", "none") ELSE trace[Len(trace)]

WorkerEntries == Cardinality({i \in 1..Len(trace) : trace[i].node = "worker"})

\* C1: in a full run of the graph driver the Worker node is entered at most
\* max_loops + 1 times.
C1_RetryBound == WorkerEntries <= max_loops + 1

\* every tool call of every assistant message has exactly one ToolMessage
\* with its id after that message
Paired(msgs) ==
    \A i \in 1..Len(msgs) :
      msgs[i].type = "ai" =>
        \A k \in 1..Len(msgs[i].tool_calls) :
          Cardinality({j \in (i + 1)..Len(msgs) :
                         /\ msgs[j].type = "tool"
                         /\ msgs[j].tool_call_id = msgs[i].tool_calls[k].id}) = 1

\* C2: whenever run_llm_with_tools invokes the model, every tool call of
\* every assistant message in the history has exactly one ToolMessage with
\* the matching id after it.
C2_ToolCallPairing ==
    (pc = "invoke" /\ rounds_left(round_idx)) => Paired(state.messages)

\* the model is invoked again after a completion with two tool calls, in a
\* later Worker attempt than the one that received it
C2_Witness ==
    /\ pc = "invoke" /\ rounds_left(round_idx)
    /\ WorkerEntries >= 2
    /\ \E i \in 1..Len(state.messages) : Len(state.messages[i].tool_calls) = 2
    /\ \E i \in 1..Len(state.messages) :
         /\ state.messages[i].type = "tool"
         /\ state.messages[i].content[1] = "tool_not_found"

\* the completions the current call of run_llm_with_tools appended: the
\* assistant messages after the last HumanMessage
LoopCompletions ==
    LET msgs == state.messages
        humans == {i \in 1..Len(msgs) : msgs[i].type = "human"}
        last == CHOOSE i \in humans : \A j \in humans : j <= i
    IN IF humans = {} THEN <<>>
       ELSE SelectSeq(SubSeq(msgs, last + 1, Len(msgs)), LAMBDA m : m.type = "ai")

LoopEnded == loopExit \notin {"none", "running"}

ReturnedFirstFinal ==
    /\ invokes = Len(LoopCompletions)
    /\ invokes >= 1
    /\ LoopCompletions[invokes].tool_calls = <<>>
    /\ \A i \in 1..(invokes - 1) : LoopCompletions[i].tool_calls # <<>>

ExceededAfterMaxRounds ==
    /\ invokes = max_rounds
    /\ Len(LoopCompletions) = max_rounds
    /\ \A i \in 1..max_rounds : LoopCompletions[i].tool_calls # <<>>

\* C3 as stated: one call of run_llm_with_tools invokes the model at most
\* max_rounds times and ends either by returning the first completion
\* without tool calls or by raising the loop-exceeded error after exactly
\* max_rounds completions that all carried tool calls.
C3_TwoExitsOnly ==
    /\ invokes <= max_rounds
    /\ LoopEnded =>
         \/ loopExit = "return" /\ ReturnedFirstFinal
         \/ loopExit = "exceeded" /\ ExceededAfterMaxRounds

\* C3 amended: one call of run_llm_with_tools invokes the model at most
\* max_rounds times and ends by returning the first completion without
\* tool calls (the only successful exit), by raising the loop-exceeded
\* error after exactly max_rounds completions that all carried tool calls,
\* or by propagating the exception of a model call or of a tool handler.
C3_ToolLoopBound ==
    /\ invokes <= max_rounds
    /\ LoopEnded =>
         \/ loopExit = "return" /\ ReturnedFirstFinal
         \/ loopExit = "exceeded" /\ ExceededAfterMaxRounds
         \/ loopExit = "remote" /\ ~resp.ok /\ invokes = Len(LoopCompletions) + 1
         \/ loopExit = "tool" /\ raisedIds # {} /\ invokes = Len(LoopCompletions)
    /\ (LoopEnded /\ loopExit # "return") => state.error_msg # ""

\* the loop-exceeded error was raised
C3_Witness == loopExit = "exceeded" /\ invokes = max_rounds

HasToolMessage(id) ==
    \E j \in 1..Len(state.messages) :
      state.messages[j].type = "tool" /\ state.messages[j].tool_call_id = id

\* C4: when a tool handler raises, the loop appends a ToolMessage for that
\* call id and goes on; the Worker does not fail because of it.
C4_HandlerFailureNotFatal ==
    /\ \A id \in raisedIds : HasToolMessage(id)
    /\ loopExit # "tool"

\* C5: when the Critic's model call fails, the Critic sets critic_done,
\* clears need_retry and sets finished.
C5_CriticUnavailableAccepts ==
    LastEvent = Event("critic", "fail") =>
      state.critic_done /\ ~state.need_retry /\ state.finished

\* C6: the router returns the node of the priority table: error, then empty
\* plan, then unreviewed answer, then pending retry, then missing answer,
\* else end.
C6_RouterTable ==
    pc = "router_returned" =>
      LET err == state.error_msg # ""
          noPlan == state.planner_plan = <<>>
          unreviewed == state.final_answer # <<>> /\ ~state.critic_done
          retry == state.need_retry /\ ~state.finished
          noAnswer == state.final_answer = <<>>
      IN /\ err => node = "error"
         /\ (~err /\ noPlan) => node = "planner"
         /\ (~err /\ ~noPlan /\ unreviewed) => node = "critic"
         /\ (~err /\ ~noPlan /\ ~unreviewed /\ retry) => node = "worker"
         /\ (~err /\ ~noPlan /\ ~unreviewed /\ ~retry /\ noAnswer) => node = "worker"
         /\ (~err /\ ~noPlan /\ ~unreviewed /\ ~retry /\ ~noAnswer) => node = "end"

\* the error wins over an empty plan, a pending retry and a finished flag
C6_Witness ==
    /\ pc = "router_returned" /\ node = "error"
    /\ state.planner_plan = <<>> /\ state.need_retry /\ state.finished
    /\ state.final_answer # <<>> /\ ~state.critic_done

\* C7: the driver invokes at most max_steps node functions; once the step
\* counter has reached max_steps it leaves the loop, sets final_answer to
\* the too-many-steps text only if it is empty, sets finished, and stops.
C7_StepCeiling ==
    /\ [](Len(trace) <= max_steps)
    /\ []((pc = "loop" /\ step >= max_steps) => ~ENABLED (PlannerNode \/ WorkerEnter \/ CriticNode \/ ErrorNode))
    /\ [][(pc = "after" /\ step >= max_steps) =>
            /\ state'.finished
            /\ state'.final_answer =
                 IF state.final_answer = <<>> THEN TooManySteps ELSE state.final_answer
            /\ pc' = "done"]_vars
    /\ [][pc # "done"]_vars

\* the ceiling was hit with an empty answer
C7_Witness ==
    pc = "done" /\ step = max_steps /\ state.final_answer = TooManySteps /\ node # "end"

ErrorRan == LastEvent.node = "error"

\* C8: the Error node sets finished and a non-empty final_answer made from
\* error_msg, and no node function is invoked after it.
C8_ErrorTerminal ==
    /\ [](ErrorRan =>
            /\ state.finished
            /\ state.final_answer # <<>>
            /\ state.final_answer = ErrorAnswer(state.error_msg))
    /\ [][ErrorRan => trace' = trace]_vars

\* the Error node ran after a Worker failure and the run is over
C8_Witness == ErrorRan /\ pc = "done" /\ WorkerEntries >= 1

PlannerFailed ==
    /\ Len(trace') = Len(trace) + 1
    /\ trace'[Len(trace')] = Event("planner", "fail")

\* C9: a failed Planner call sets error_msg and changes no other field of
\* the state; planner_plan is only ever written with the whole text of a
\* successful Planner response.
C9_PlannerFailure ==
    /\ [][PlannerFailed =>
            /\ state'.error_msg # ""
            /\ [state' EXCEPT !.error_msg = state.error_msg] = state]_vars
    /\ [][state'.planner_plan # state.planner_plan =>
            /\ trace'[Len(trace')].node = "planner"
            /\ resp'.ok
            /\ state'.planner_plan = resp'.content]_vars

\* the Planner failed at its second call, after an empty plan
C9_Witness ==
    /\ LastEvent = Event("planner", "fail")
    /\ Len(trace) = 2
    /\ state.planner_plan = <<>> /\ state.error_msg # ""

\* the run so far is one of Scenario D: the Planner succeeded, every Worker
\* attempt produced a non-empty answer, every Critic review returned flag 1
ScenarioD ==
    /\ trace # <<>>
    /\ trace[1] = Event("planner", "ok")
    /\ \A i \in 2..Len(trace) :
         \/ trace[i] = Event("worker", "ok")
         \/ trace[i] = Event("critic", "retry")
         \/ trace[i] = Event("critic", "forced")

\* C10: in Scenario D with max_loops = 2 the Worker is attempted three
\* times and the review after the third attempt ends the task.
C10_ScenarioD ==
    (pc = "done" /\ ScenarioD) =>
      /\ WorkerEntries = 3
      /\ LastEvent = Event("critic", "forced")
      /\ ~state.need_retry /\ state.finished

CriticEntries == Cardinality({i \in 1..Len(trace) : trace[i].node = "critic"})

CriticEvents == SelectSeq(trace, LAMBDA ev : ev.node = "critic")

\* the run so far is one of Scenario C: the Planner succeeded, every Worker
\* attempt produced a non-empty answer, the first review returned flag 1
\* and the second flag 0
ScenarioC ==
    /\ trace # <<>>
    /\ trace[1] = Event("planner", "ok")
    /\ \A i \in 2..Len(trace) :
         trace[i] = Event("worker", "ok") \/ trace[i].node = "critic"
    /\ CriticEntries <= 2
    /\ CriticEntries >= 1 => CriticEvents[1].out \in {"retry", "forced"}
    /\ CriticEntries >= 2 => CriticEvents[2].out = "accept"

\* C11: in Scenario C the first review sets need_retry and the router
\* returns worker, and the run ends finished after exactly two Worker
\* entries and two Critic entries.
C11_ScenarioC ==
    /\ (ScenarioC /\ pc = "loop" /\ CriticEntries = 1 /\ LastEvent.node = "critic") =>
         /\ state.need_retry /\ ~state.finished
         /\ node = "worker"
    /\ (ScenarioC /\ pc = "done") =>
         /\ state.finished
         /\ WorkerEntries = 2
         /\ CriticEntries = 2

\* Scenario C ran to its end
C11_Witness ==
    /\ ScenarioC /\ pc = "done"
    /\ WorkerEntries = 2 /\ CriticEntries = 2 /\ state.finished

\* C12: the messages never get shorter, what was appended stays in place,
\* and user_input is never reassigned.
C12_StateMonotonic ==
    [][/\ Len(state'.messages) >= Len(state.messages)
       /\ SubSeq(state'.messages, 1, Len(state.messages)) = state.messages
       /\ state'.user_input = state.user_input]_vars

\* a Worker attempt failed after it had appended tool results
C12_Witness ==
    /\ LastEvent = Event("worker", "fail")
    /\ state.messages # <<>>
    /\ state.messages[Len(state.messages)].type = "tool"

CurrentCall == resp.tool_calls[call_idx]

\* C13: a request for a tool that is not in the registry gets a ToolMessage
\* for its id that says the tool was not found; no error is raised, the
\* next call of the completion is processed, and after the last call the
\* loop goes on to its next round.
C13_UnknownTool ==
    [][(pc = "tools" /\ CurrentCall.name \notin tool_map) =>
         /\ state'.messages =
              Append(state.messages,
                     ToolMessage(<<"tool_not_found", CurrentCall.name>>, CurrentCall.id))
         /\ state'.error_msg = ""
         /\ loopExit' = "running"
         /\ IF call_idx < Len(resp.tool_calls)
            THEN pc' = "tools" /\ call_idx' = call_idx + 1 /\ round_idx' = round_idx
            ELSE pc' = "invoke" /\ round_idx' = round_idx + 1]_vars

\* the call after a missing tool's was processed, and the model was invoked
\* again
C13_Witness ==
    /\ pc = "tools" /\ round_idx >= 1
    /\ \E i \in 1..(Len(state.messages) - 1) :
         /\ state.messages[i].type = "tool"
         /\ state.messages[i].content[1] = "tool_not_found"
         /\ state.messages[i + 1].type = "tool"

\* C16: whenever the router returns end, finished is true: its default
\* return is never reached.
C16_DefaultUnreachable ==
    (pc = "loop" /\ node = "end") => state.finished

WorkerFailedStep ==
    /\ LastEvent = Event("worker", "running")
    /\ LastEvent' = Event("worker", "fail")

\* C17: a failed Worker attempt sets error_msg and does not write
\* final_answer; the router's next decision is error, and neither the
\* Critic nor the Worker runs afterwards.
C17_WorkerFailure ==
    /\ [][WorkerFailedStep =>
            /\ state'.error_msg # ""
            /\ state'.final_answer = state.final_answer
            /\ node' = "error"]_vars
    /\ [](\A i \in 1..Len(trace) :
            trace[i] = Event("worker", "fail") =>
              \A j \in (i + 1)..Len(trace) : trace[j].node = "error")

\* the round limit was exceeded in a second attempt and the Error node ran
C17_Witness ==
    /\ ErrorRan
    /\ loopExit = "exceeded"
    /\ WorkerEntries = 2
    /\ trace[Len(trace) - 1] = Event("worker", "fail")

\* the critic model answered and there was an answer to review
Reviewed(r) == r.ok /\ state.final_answer # <<>>

\* C14: when the flag asks for a retry the Critic leaves need_retry true and
\* finished as it was exactly when loop_count < max_loops on entry, and
\* otherwise sets need_retry false and finished true; when the flag accepts
\* it sets finished true and need_retry false; in every case critic_done is
\* set.
C14_RetryRule ==
    [][pc = "critic_call" =>
         /\ state'.critic_done
         /\ (Reviewed(resp') /\ FlagLine(resp'.content) = <<"1">>) =>
              IF state.loop_count < state.max_loops
              THEN state'.need_retry /\ state'.finished = state.finished
              ELSE ~state'.need_retry /\ state'.finished
         /\ (Reviewed(resp') /\ ~Contains1(FlagLine(resp'.content))) =>
              ~state'.need_retry /\ state'.finished
         /\ Reviewed(resp') =>
              \/ /\ state'.need_retry /\ state'.finished = state.finished
                 /\ state.loop_count < state.max_loops
              \/ ~state'.need_retry /\ state'.finished]_vars

\* the flag asked for a retry at the limit, and the Critic forced the end
C14_Witness ==
    /\ pc = "critic_returned"
    /\ Reviewed(resp) /\ FlagLine(resp.content) = <<"1">>
    /\ state.loop_count = state.max_loops
    /\ ~state.need_retry /\ state.finished /\ state.critic_done

\* C15: the Critic requests a retry only when the first line of its
\* response is the flag "1"; any other first line is treated as accept.
C15_FlagFailsOpen ==
    (/\ pc = "critic_returned"
     /\ Reviewed(resp)
     /\ FlagLine(resp.content) # <<"1">>) =>
        ~state.need_retry /\ state.finished

\* store p has returned from at least one add_record
Completed(p) == stores[p].pc = "ready" /\ stores[p].adds >= 1

\* elems are the n most recent of all, in the order they were inserted
MostRecent(elems, all, n) ==
    /\ Len(elems) = (IF Len(all) > n THEN n ELSE Len(all))
    /\ \A i \in 1..Len(elems) : elems[i] = all[Len(all) - Len(elems) + i]

BothSaved ==
    \A p \in Stores :
      /\ stores[p].kind \in FileKinds
      /\ stores[p].max_items >= 2
      /\ stores[p].pc = "ready"
      /\ stores[p].adds = 1
      /\ stores[p].saved

InFile(rec) == \E i \in 1..Len(file.elems) : file.elems[i] = rec

\* C19: when two store instances on the same file each append a record, in
\* any interleaving of their load, append, truncate and save steps the
\* file afterwards contains both records.
C19_ConcurrentAppend ==
    BothSaved => (file.tag = "list" /\ \A p \in Stores : InFile(NewRecord(p, 1)))

NotAList == {"missing", "unreadable", "object", "number"}

\* C20: constructing a store whose file is missing, unreadable or not a
\* JSON list never raises and yields an empty list, and add_record and
\* build_summary on that store succeed.
C20_LoadDegradesSafely ==
    \A p \in Stores :
      stores[p].loaded \in NotAList =>
        /\ stores[p].pc # "raised"
        /\ stores[p].items.tag = "list"
        /\ stores[p].adds = 0 =>
             \/ stores[p].items.elems = <<>>
             \/ stores[p].pc \in {"appended", "truncated"}

RECURSIVE LastHuman(_, _)
\* the index of the last HumanMessage among the first n messages, 0 if none
LastHuman(msgs, n) ==
    IF n = 0 THEN 0
    ELSE IF msgs[n].type = "human" THEN n
    ELSE LastHuman(msgs, n - 1)

\* the messages the current Worker attempt appended after its HumanMessage
AttemptMessages ==
    SubSeq(state.messages, LastHuman(state.messages, Len(state.messages)) + 1,
           Len(state.messages))

RECURSIVE CallsOf(_)
\* the tool calls of the assistant messages of msgs, in the order received
CallsOf(msgs) ==
    IF msgs = <<>> THEN <<>>
    ELSE Head(msgs).tool_calls \o CallsOf(Tail(msgs))

AttemptCalls == CallsOf(AttemptMessages)

AttemptToolMessages == SelectSeq(AttemptMessages, LAMBDA m : m.type = "tool")

WorkerSucceeded == LastEvent \in {Event("worker", "ok"), Event("worker", "empty")}

\* C21: after a successful Worker attempt tool_history has, in the order
\* the calls were received in that attempt, one entry (name, arguments,
\* result text) per tool call, whose result text is the text of the
\* ToolMessage appended for that call; with a single calculator call the
\* log is that one entry.
C21_ToolLogContent ==
    WorkerSucceeded =>
      /\ Len(state.tool_history) = Len(AttemptCalls)
      /\ Len(AttemptToolMessages) = Len(AttemptCalls)
      /\ \A i \in 1..Len(AttemptCalls) :
           /\ state.tool_history[i][1] = AttemptCalls[i].name
           /\ state.tool_history[i][2] = AttemptCalls[i].args
           /\ state.tool_history[i][3] = AttemptToolMessages[i].content
           /\ AttemptToolMessages[i].tool_call_id = AttemptCalls[i].id
      /\ (Len(AttemptCalls) = 1 /\ AttemptCalls[1].name = "calculator") =>
           state.tool_history =
             <<(<<"calculator", AttemptCalls[1].args,
                  <<"output_of", "calculator", AttemptCalls[1].args>> >>)>>

\* an attempt succeeded after tool calls in two rounds, the second with two
\* calls
C21_Witness ==
    /\ WorkerSucceeded
    /\ Len(state.tool_history) = 3
    /\ round_idx = 2
    /\ state.tool_history[1][1] # state.tool_history[2][1]

WorkerSucceededStep ==
    /\ LastEvent = Event("worker", "running")
    /\ LastEvent' \in {Event("worker", "ok"), Event("worker", "empty")}

\* C22: when a Worker attempt succeeds, the entries of tool_history from
\* earlier attempts are kept and the new attempt's entries come after them.
C22_ToolLogMerged ==
    [][WorkerSucceededStep =>
         /\ Len(state'.tool_history) >= Len(state.tool_history)
         /\ SubSeq(state'.tool_history, 1, Len(state.tool_history)) = state.tool_history]_vars

C27_FinalAnswerPresent ==
    pc = "done" => state.final_answer # <<>>

\* the Worker gave only empty answers until the step ceiling
C27_Witness ==
    /\ pc = "done"
    /\ state.final_answer = TooManySteps
    /\ LastEvent = Event("worker", "empty")

\* C28: whenever run_graph has left its driver loop, finished is true.
C28_FinishedAtExit ==
    pc = "done" => state.finished

PlannerEntries == Cardinality({i \in 1..Len(trace) : trace[i].node = "planner"})

\* C29: the Planner is invoked exactly once, as the first node, and never
\* again after it returned without error, whatever the plan text.
C29_PlannerOnce ==
    trace # <<>> => (trace[1].node = "planner" /\ PlannerEntries = 1)

\* the lines of the stripped critic text after the flag line, joined again
Rationale(content) ==
    LET lines == SplitLines(Strip(content))
    IN IF Len(lines) > 1 THEN JoinLines(Tail(lines)) ELSE <<>>

\* C23: after a review that received a response, critic_reason holds only
\* the lines after the flag line; a response that is the flag line alone
\* leaves critic_reason empty.
C23_CriticRationale ==
    (pc = "critic_returned" /\ Reviewed(resp)) =>
        state.critic_reason = Rationale(resp.content)

----------------------------------------------------------------------------
(* The single-shot agents: run_agent of agent-1.py and of agent-2.py. One  *)
(* task, a first model call, the tool calls it asks for, a second call.    *)

\* the graph runtime is not running
IdleGraph ==
    /\ state = init_state(UserInput)
    /\ pc = "agent"
    /\ node = "none"
    /\ step = 0
    /\ round_idx = 0
    /\ resp = NoResp
    /\ call_idx = 0
    /\ loop_history = <<>>
    /\ nextId = 1
    /\ trace = <<>>
    /\ invokes = 0
    /\ loopExit = "none"
    /\ raisedIds = {}
    /\ env = [toolCalls |-> 0, empties |-> 0]

SingleKinds == {"agent-1", "agent-2"}

SingleArgs == {"2+2", "23*47"}

\* the tool_map each agent builds
agent_tool_map(kind) ==
    IF kind = "agent-1" THEN {"calculator"} ELSE {"calculator", "text_stats"}

\* the tool calls a response may carry, with ids 1..n
AgentCallLists(n) ==
    { [i \in 1..n |-> [name |-> f[i][1], args |-> f[i][2], id |-> i]] :
        f \in [1..n -> RequestNames \X SingleArgs] }

agent_tool_output(kind, call) ==
    IF call.name \notin agent_tool_map(kind)
    THEN <<"tool_not_found", call.name>>
    ELSE <<"output_of", call.name, call.args>>

\* run_agent: the messages list before the first call
single_messages(kind) ==
    IF kind = "agent-1"
    THEN <<HumanMessage(UserInput)>>
    ELSE <<SystemMessage(<<"system_prompt">>), HumanMessage(UserInput)>>

InitSingle ==
    /\ IdleGraph
    /\ NoMemory
    /\ \E k \in SingleKinds :
         agent = [NoAgent EXCEPT !.kind = k, !.pc = "first",
                                 !.messages = single_messages(k)]

\* the first llm_with_tools.invoke; agent-2 appends the response here
SingleFirst ==
    /\ agent.pc = "first"
    /\ \/ agent' = [agent EXCEPT !.pc = "raised", !.invokes = 1]
       \/ \E a \in AnswerTexts :
            agent' = [agent EXCEPT !.pc = "returned", !.invokes = 1,
                                   !.resp = Completion(a, <<>>), !.result = a]
       \/ \E n \in 1..MaxCalls : \E calls \in AgentCallLists(n) :
            agent' = [agent EXCEPT
               !.pc = "tools", !.invokes = 1, !.call_idx = 1,
               !.resp = Completion(<<>>, calls),
               !.messages = IF agent.kind = "agent-2"
                            THEN Append(@, AIMessage(<<>>, calls)) ELSE @]
    /\ UNCHANGED <<graphvars, memvars>>

\* one iteration of 'for tool_call in response.tool_calls'; agent-1 appends
\* the response in every iteration
SingleTool ==
    /\ agent.pc = "tools"
    /\ LET call == agent.resp.tool_calls[agent.call_idx]
           last == agent.call_idx = Len(agent.resp.tool_calls)
           m0 == IF agent.kind = "agent-1"
                 THEN Append(agent.messages, AIMessage(<<>>, agent.resp.tool_calls))
                 ELSE agent.messages
       IN \/ /\ call.name \in agent_tool_map(agent.kind)
             /\ agent' = [agent EXCEPT !.pc = "raised"]
          \/ agent' = [agent EXCEPT
               !.messages = Append(m0, ToolMessage(agent_tool_output(agent.kind, call), call.id)),
               !.call_idx = IF last THEN 0 ELSE @ + 1,
               !.pc = IF last THEN "second" ELSE "tools"]
    /\ UNCHANGED <<graphvars, memvars>>

\* the second llm_with_tools.invoke(messages)
SingleSecond ==
    /\ agent.pc = "second"
    /\ \/ agent' = [agent EXCEPT !.pc = "raised", !.invokes = 2]
       \/ \E a \in AnswerTexts :
            agent' = [agent EXCEPT !.pc = "returned", !.invokes = 2, !.result = a]
    /\ UNCHANGED <<graphvars, memvars>>

NextSingle == SingleFirst \/ SingleTool \/ SingleSecond

SpecSingle == InitSingle /\ [][NextSingle]_vars

\* the ToolMessages for the first n calls of a response, in request order
ToolMessagesFor(kind, calls) ==
    [i \in 1..Len(calls) |-> ToolMessage(agent_tool_output(kind, calls[i]), calls[i].id)]

\* C30: when the first response requests n >= 1 tool calls, the history
\* sent to the second model call is the task, the assistant tool-call
\* message once, then one ToolMessage per call in request order.
C30_SingleShotHistory ==
    agent.pc = "second" =>
      agent.messages =
        single_messages(agent.kind)
          \o <<AIMessage(<<>>, agent.resp.tool_calls)>>
          \o ToolMessagesFor(agent.kind, agent.resp.tool_calls)

----------------------------------------------------------------------------
(* The agents that call the model twice per turn on a history they keep:   *)
(* AgentRuntime.chat_once, PlannerRuntime.chat_once, WorkerAgent.execute   *)
(* and worker_node of graph_advanced_runtime-2.py. A turn is a chat_once   *)
(* call, an execute call, or a Worker attempt.                             *)

MaxTurns == 2

TwoCallKinds ==
    {"AgentRuntime.chat_once", "PlannerRuntime.chat_once",
     "WorkerAgent.execute", "worker_node"}

\* the history before the first turn
two_call_messages(kind) ==
    IF kind = "worker_node" THEN <<>> ELSE <<SystemMessage(<<"system_prompt">>)>>

\* what a turn appends before its first model call
turn_start(kind, msgs, turn) ==
    IF kind = "AgentRuntime.chat_once"
    THEN Append(msgs, HumanMessage(UserInput))
    ELSE IF kind = "PlannerRuntime.chat_once"
    THEN msgs \o <<HumanMessage(UserInput), SystemMessage(<<"plan">>)>>
    ELSE IF kind = "WorkerAgent.execute"
    THEN msgs \o <<SystemMessage(<<"plan">>), HumanMessage(UserInput)>>
    ELSE LET m0 == IF msgs = <<>> THEN <<SystemMessage(<<"base_system">>)>> ELSE msgs
             m1 == IF turn > 0 THEN Append(m0, SystemMessage(<<"critic_hint">>)) ELSE m0
         IN Append(m1, HumanMessage(UserInput))

\* the tool calls a response may carry, with ids not used before
TwoCallLists(n, first) ==
    { [i \in 1..n |-> [name |-> "calculator", args |-> "args", id |-> first + i - 1]] }
    \cup (IF n = 1
          THEN { <<[name |-> "nonexistent", args |-> "args", id |-> first]>> }
          ELSE {})

TwoCallResponses(msgs) ==
    { Completion(<<"text">>, calls) :
        calls \in UNION { TwoCallLists(n, Len(CallsOf(msgs)) + 1) : n \in 0..MaxCalls } }

\* _process_tool_calls: one ToolMessage per tool call of the response
process_tool_calls(kind, msgs, response) ==
    msgs \o ToolMessagesFor(kind, response.tool_calls)

\* a failed call ends the turn; the graph's Worker is not entered again
after_failure(kind) == IF kind = "worker_node" THEN "ended" ELSE "idle"

InitTwoCall ==
    /\ IdleGraph
    /\ NoMemory
    /\ \E k \in TwoCallKinds :
         agent = [NoAgent EXCEPT !.kind = k, !.pc = "idle",
                                 !.messages = two_call_messages(k)]

TurnStart ==
    /\ agent.pc = "idle"
    /\ agent.turns < MaxTurns
    /\ agent' = [agent EXCEPT
          !.messages = turn_start(agent.kind, @, agent.turns),
          !.turns = @ + 1, !.pc = "first"]
    /\ UNCHANGED <<graphvars, memvars>>

\* the first invoke of a turn and the tool calls of its response
TwoCallFirst ==
    /\ agent.pc = "first"
    /\ \/ agent' = [agent EXCEPT !.pc = after_failure(agent.kind), !.invokes = @ + 1]
       \/ \E r \in TwoCallResponses(agent.messages) :
            LET m1 == Append(agent.messages, AIMessage(r.content, r.tool_calls))
            IN \/ /\ \E i \in 1..Len(r.tool_calls) :
                       r.tool_calls[i].name \in agent_tool_map(agent.kind)
                  /\ agent' = [agent EXCEPT !.pc = "raised", !.invokes = @ + 1,
                                            !.resp = r, !.messages = m1]
               \/ agent' = [agent EXCEPT
                    !.pc = "second", !.invokes = @ + 1, !.resp = r,
                    !.messages = process_tool_calls(agent.kind, m1, r)]
    /\ UNCHANGED <<graphvars, memvars>>

\* the second invoke of a turn; its response is appended as it is
TwoCallSecond ==
    /\ agent.pc = "second"
    /\ \/ agent' = [agent EXCEPT !.pc = after_failure(agent.kind), !.invokes = @ + 1]
       \/ \E r \in TwoCallResponses(agent.messages) :
            agent' = [agent EXCEPT
               !.pc = "idle", !.invokes = @ + 1, !.resp = r,
               !.result = r.content,
               !.messages = Append(@, AIMessage(r.content, r.tool_calls))]
    /\ UNCHANGED <<graphvars, memvars>>

NextTwoCall == TurnStart \/ TwoCallFirst \/ TwoCallSecond

SpecTwoCall == InitTwoCall /\ [][NextTwoCall]_vars

\* C26: in the two-call agents every model invocation sees a history in
\* which each tool call of each earlier assistant message has exactly one
\* ToolMessage with its id, also when the second response of a turn asks
\* for tool calls.
C26_NoDanglingTwoCall ==
    agent.pc \in {"first", "second"} => Paired(agent.messages)

----------------------------------------------------------------------------
(* The JSON-producing agents: run_worker (teaching_graph_agent_v2.py),     *)
(* run_teacher_agent and run_ppt_agent (teaching_graph_agent_v4_multi.py). *)
(* An output of the model is given by what json.loads makes of it.         *)

max_attempts == 3

slides_required == 8

JsonKinds == {"run_worker", "run_teacher_agent", "run_ppt_agent"}

required_keys(kind) ==
    IF kind = "run_worker"
    THEN {"course_name", "grade", "goals", "activities", "ppt_outline", "intro",
          "resources"}
    ELSE IF kind = "run_teacher_agent"
    THEN {"course_name", "grade", "goals", "key_points", "activities", "intro",
          "resources"}
    ELSE {"ppt_outline"}

\* what json.loads gives: tag "not_json" when it raises, else a number, an
\* array of the strings in keys, or an object with the keys in keys; for an
\* object with ppt_outline, islist tells whether that value is a list and
\* slides gives the shape of each of its elements
Output(tag, keys, islist, slides) ==
    [tag |-> tag, keys |-> keys, islist |-> islist, slides |-> slides]

NoOutput == Output("none", {}, FALSE, <<>>)

\* the shapes of a slide: a dict with title and bullets, a dict without
\* bullets, the list ["title", "bullets"], a number
SlideShapes == {"dict", "no_bullets", "names", "number"}

Outlines ==
    { [i \in 1..n |-> "dict"] :
        n \in (slides_required - 1)..(slides_required + 1) }
    \cup { [i \in 1..slides_required |->
              IF i = slides_required THEN sh ELSE "dict"] : sh \in SlideShapes }

Outputs(kind) ==
    { Output("not_json", {}, FALSE, <<>>), Output("number", {}, FALSE, <<>>),
      Output("object", {}, FALSE, <<>>),
      Output("array", required_keys(kind), FALSE, <<>>) }
    \cup
    (IF kind = "run_ppt_agent"
     THEN { Output("object", {"ppt_outline"}, FALSE, <<>>) }
          \cup { Output("object", {"ppt_outline"}, TRUE, o) : o \in Outlines }
     ELSE { Output("object", required_keys(kind), FALSE, <<>>),
            Output("object", required_keys(kind) \ {"intro"}, FALSE, <<>>) })

\* 'k in x' of Python for a slide: raises for a number
slide_passes(sh) == sh \in {"dict", "names"}

\* the try block of the three functions: TRUE when it reaches 'return
\* result', FALSE when anything in it raises
passes_check(kind, o) ==
    IF o.tag \in {"not_json", "number"} THEN FALSE
    ELSE IF ~(required_keys(kind) \subseteq o.keys) THEN FALSE
    ELSE IF kind # "run_ppt_agent" THEN TRUE
    ELSE IF o.tag = "array" THEN FALSE
    ELSE IF ~o.islist \/ Len(o.slides) # slides_required THEN FALSE
    ELSE \A i \in 1..Len(o.slides) : slide_passes(o.slides[i])

Role(role, content) == [role |-> role, content |-> content]

json_messages(kind) ==
    <<Role("system", Output("prompt", {}, FALSE, <<>>)),
      Role("user", Output("task", {}, FALSE, <<>>))>>

Corrective == Role("user", Output("corrective", {}, FALSE, <<>>))

InitJson ==
    /\ IdleGraph
    /\ NoMemory
    /\ \E k \in JsonKinds :
         agent = [NoAgent EXCEPT !.kind = k, !.pc = "call",
                                 !.messages = json_messages(k),
                                 !.resp = NoOutput, !.result = NoOutput]

\* one iteration of 'for attempt in range(3)'; call_llm may raise
JsonAttempt ==
    /\ agent.pc = "call"
    /\ \/ agent' = [agent EXCEPT !.pc = "failed", !.invokes = @ + 1]
       \/ \E o \in Outputs(agent.kind) :
            IF passes_check(agent.kind, o)
            THEN agent' = [agent EXCEPT !.pc = "returned", !.invokes = @ + 1,
                                        !.resp = o, !.result = o]
            ELSE agent' = [agent EXCEPT
                   !.pc = IF agent.invokes + 1 = max_attempts THEN "raised" ELSE "call",
                   !.invokes = @ + 1, !.resp = o,
                   !.messages = @ \o <<Role("assistant", o), Corrective>>]
    /\ UNCHANGED <<graphvars, memvars>>

NextJson == JsonAttempt

SpecJson == InitJson /\ [][NextJson]_vars

\* the shape check as the agents' prompts state it: an object with all the
\* required keys, and for the PPT agent a list of exactly 8 slides, each an
\* object with title and bullets
ShapeOK(kind, o) ==
    /\ o.tag = "object"
    /\ required_keys(kind) \subseteq o.keys
    /\ kind = "run_ppt_agent" =>
         /\ o.islist
         /\ Len(o.slides) = slides_required
         /\ \A i \in 1..Len(o.slides) : o.slides[i] = "dict"

\* the outputs rejected so far in this call
Rejections == (Len(agent.messages) - 2) \div 2

\* C25: one call invokes the model at most 3 times; it returns the first
\* output that passes the shape check and never one that fails it; after
\* each rejected output it appends that output as an assistant message and
\* one corrective user message; after 3 rejected outputs it raises.
C25_BoundedJsonRetries ==
    /\ agent.invokes <= max_attempts
    /\ Len(agent.messages) = 2 + 2 * Rejections
    /\ \A i \in 1..Rejections :
         /\ agent.messages[2 * i + 1].role = "assistant"
         /\ ~ShapeOK(agent.kind, agent.messages[2 * i + 1].content)
         /\ agent.messages[2 * i + 2] = Corrective
    /\ agent.pc = "returned" =>
         /\ ShapeOK(agent.kind, agent.result)
         /\ agent.result = agent.resp
         /\ agent.invokes = Rejections + 1
    /\ agent.pc = "call" => (agent.invokes = Rejections /\ Rejections < max_attempts)
    /\ agent.pc = "raised" <=> Rejections = max_attempts

====
